---- MODULE Spec2Model ----
(***************************************************************************)
(* A model of the crate quake-inverse-sqrt (src/src/lib.rs): the trait     *)
(* QSqrt, its implementation for f32 (the bit hack and one Newton step),   *)
(* for f64 (range check, narrowing, delegation) and for the integer types  *)
(* of impl_types! (numeric conversion, delegation).                        *)
(*                                                                         *)
(* A 32-bit pattern (a u32, or the bits of an f32) is the record           *)
(* [s |-> bit 31, w |-> bits 30..0]: the model checker's integers are      *)
(* 32-bit signed, so bit 31 is kept apart.  An f64 is the record           *)
(* [s, e, mh, ml]: sign, the 11-bit exponent field, the upper 23 and the   *)
(* lower 29 bits of the 52-bit fraction.  Float arithmetic is IEEE-754     *)
(* binary32 with round-to-nearest-even, computed on the bit fields.  Every *)
(* NaN an operation produces is the one quiet NaN QNaN (its sign and       *)
(* payload are left to the hardware and no result depends on them).        *)
(***************************************************************************)
EXTENDS Integers, Sequences, FiniteSets, TLC

\* ------------------------------------------------------------------------
\* Constants of the crate
\* ------------------------------------------------------------------------

\* const WTF: u32 = 0x5f3759df
WTF == 1597463007

\* (variant) the constant of the Newton step mistaken for 1.0
THREE_HALFS_AsOne == [s |-> 0, w |-> 127 * 2^23]

\* const THREE_HALFS: f32 = 1.5   (bits 0x3FC00000)
THREE_HALFS == [s |-> 0, w |-> 127 * 2^23 + 2^22]

\* the literal 0.5 of `self * 0.5`   (bits 0x3F000000)
HALF == [s |-> 0, w |-> 126 * 2^23]

\* f32::MAX (bits 0x7F7FFFFF) and f32::MIN = -f32::MAX (bits 0xFF7FFFFF)
F32_MAX == [s |-> 0, w |-> 254 * 2^23 + (2^23 - 1)]
F32_MIN == [s |-> 1, w |-> 254 * 2^23 + (2^23 - 1)]

\* ------------------------------------------------------------------------
\* IEEE-754 binary32 on bit patterns
\* ------------------------------------------------------------------------

InfBits == 255 * 2^23

QNaN == [s |-> 0, w |-> 255 * 2^23 + 2^22]

Inf(s) == [s |-> s, w |-> InfBits]

Zero(s) == [s |-> s, w |-> 0]

IsNaN(a) == a.w > InfBits

IsInf(a) == a.w = InfBits

IsZero(a) == a.w = 0

IsFinite(a) == a.w < InfBits

\* the exponent field (bits 30..23) and the fraction field (bits 22..0)
ExpField(a) == a.w \div 2^23

FracField(a) == a.w % 2^23

\* a finite a has the value (-1)^s * Sig(a) * 2^Exp(a)
Sig(a) == IF a.w < 2^23 THEN a.w ELSE 2^23 + (a.w % 2^23)

Exp(a) == IF a.w < 2^23 THEN -149 ELSE a.w \div 2^23 - 150

Neg(a) == [s |-> 1 - a.s, w |-> a.w]

\* position of the highest set bit of n, 1 <= n < 2^31
Msb(n) == CHOOSE p \in 0..30 : n \div 2^p = 1

\* the pattern of sign s and magnitude M * 2^Er, where -149 <= Er and either
\* 2^23 <= M <= 2^24, or Er = -149 and M < 2^23 (a subnormal); a magnitude of
\* 2^128 or more is an infinity
Pack(s, Er, M) ==
    IF Er + 149 >= 254 THEN Inf(s)
    ELSE LET w == (Er + 149) * 2^23 + M
         IN  IF w >= InfBits THEN Inf(s) ELSE [s |-> s, w |-> w]

\* round-to-nearest-even of the magnitude (Q + f) * 2^E to binary32, where
\* 0 <= Q < 2^31, f = 0 when ~sticky and 0 < f < 1 when sticky (and then
\* Q >= 2^25)
RoundPack(s, Q, sticky, E) ==
    IF Q = 0 THEN Zero(s)
    ELSE LET p  == Msb(Q)
             Er == IF E + p - 23 > -149 THEN E + p - 23 ELSE -149
             sh == Er - E
         IN  IF sh <= 0 THEN Pack(s, Er, Q * 2^(-sh))
             ELSE IF sh >= 31 THEN Zero(s)
             ELSE LET M    == Q \div 2^sh
                      rem  == Q % 2^sh
                      half == 2^(sh - 1)
                      up   == rem > half \/ (rem = half /\ (sticky \/ M % 2 = 1))
                  IN  Pack(s, Er, IF up THEN M + 1 ELSE M)

\* a * b in f32
F32Mul(a, b) ==
    LET s == (a.s + b.s) % 2
    IN  IF IsNaN(a) \/ IsNaN(b) THEN QNaN
        ELSE IF IsInf(a) \/ IsInf(b)
             THEN IF IsZero(a) \/ IsZero(b) THEN QNaN ELSE Inf(s)
        ELSE IF IsZero(a) \/ IsZero(b) THEN Zero(s)
        ELSE LET A   == Sig(a)
                 B   == Sig(b)
                 a1  == A \div 2^12
                 a0  == A % 2^12
                 b1  == B \div 2^12
                 b0  == B % 2^12
                 mid == a1 * b0 + a0 * b1
                 lo  == a0 * b0 + (mid % 2^12) * 2^12
                 \* A * B = H * 2^24 + L
                 L   == lo % 2^24
                 H   == a1 * b1 + mid \div 2^12 + lo \div 2^24
                 E   == Exp(a) + Exp(b)
             IN  IF H < 2^6 THEN RoundPack(s, H * 2^24 + L, FALSE, E)
                 ELSE LET k == Msb(H) - 5
                      IN  RoundPack(s, H * 2^(24 - k) + L \div 2^k,
                                    L % 2^k # 0, E + k)

\* a + b in f32
F32Add(a, b) ==
    IF IsNaN(a) \/ IsNaN(b) THEN QNaN
    ELSE IF IsInf(a) /\ IsInf(b) THEN (IF a.s = b.s THEN a ELSE QNaN)
    ELSE IF IsInf(a) THEN a
    ELSE IF IsInf(b) THEN b
    ELSE IF IsZero(a) /\ IsZero(b) THEN Zero(IF a.s = b.s THEN a.s ELSE 0)
    ELSE IF IsZero(a) THEN b
    ELSE IF IsZero(b) THEN a
    ELSE LET big   == IF a.w >= b.w THEN a ELSE b
             small == IF a.w >= b.w THEN b ELSE a
             d     == Exp(big) - Exp(small)
             \* three extra bits below the larger operand
             A     == Sig(big) * 8
             B     == IF d <= 3 THEN Sig(small) * 2^(3 - d)
                      ELSE IF d >= 28 THEN 0
                      ELSE Sig(small) \div 2^(d - 3)
             st    == IF d <= 3 THEN FALSE
                      ELSE IF d >= 28 THEN TRUE
                      ELSE Sig(small) % 2^(d - 3) # 0
         IN  IF big.s = small.s THEN RoundPack(big.s, A + B, st, Exp(big) - 3)
             ELSE IF A = B /\ ~st THEN Zero(0)
             ELSE RoundPack(big.s, IF st THEN A - B - 1 ELSE A - B, st,
                            Exp(big) - 3)

\* a - b in f32
F32Sub(a, b) == F32Add(a, Neg(b))

\* a < b on f32 (PartialOrd: false when either is a NaN; -0.0 = +0.0)
F32Lt(a, b) ==
    /\ ~IsNaN(a)
    /\ ~IsNaN(b)
    /\ ~(IsZero(a) /\ IsZero(b))
    /\ IF a.s # b.s THEN a.s = 1
       ELSE IF a.s = 0 THEN a.w < b.w ELSE b.w < a.w

\* ------------------------------------------------------------------------
\* Numeric conversions
\* ------------------------------------------------------------------------

\* n as f32, for an integer n with |n| < 2^31: the nearest f32, ties to even
IntToF32(n) ==
    IF n >= 0 THEN RoundPack(0, n, FALSE, 0) ELSE RoundPack(1, -n, FALSE, 0)

\* v as f32, for an f64 v: the nearest f32, ties to even.  The 24 leading
\* bits of the significand and 5 more are kept, the lowest 24 are the sticky
\* bit.  An f64 subnormal is below half the least f32 subnormal.
F64ToF32(v) ==
    IF v.e = 2047 THEN (IF v.mh = 0 /\ v.ml = 0 THEN Inf(v.s) ELSE QNaN)
    ELSE IF v.e = 0 THEN Zero(v.s)
    ELSE RoundPack(v.s, (2^23 + v.mh) * 2^5 + v.ml \div 2^24,
                   v.ml % 2^24 # 0, v.e - 1023 - 28)

\* f64::from(a), for a normal f32 a (f32::MIN.into(), f32::MAX.into()): exact
F32ToF64(a) ==
    [s |-> a.s, e |-> ExpField(a) - 127 + 1023, mh |-> FracField(a), ml |-> 0]

F64IsNaN(v) == v.e = 2047 /\ (v.mh # 0 \/ v.ml # 0)

F64IsZero(v) == v.e = 0 /\ v.mh = 0 /\ v.ml = 0

\* |a| <= |b| for two f64 that are not NaN
F64MagLe(a, b) ==
    \/ a.e < b.e
    \/ a.e = b.e /\ a.mh < b.mh
    \/ a.e = b.e /\ a.mh = b.mh /\ a.ml <= b.ml

\* a <= b on f64 (false when either is a NaN)
F64Le(a, b) ==
    /\ ~F64IsNaN(a)
    /\ ~F64IsNaN(b)
    /\ \/ F64IsZero(a) /\ F64IsZero(b)
       \/ a.s = 1 /\ b.s = 0
       \/ a.s = 0 /\ b.s = 0 /\ F64MagLe(a, b)
       \/ a.s = 1 /\ b.s = 1 /\ F64MagLe(b, a)

\* a >= b on f64
F64Ge(a, b) == F64Le(b, a)

\* ------------------------------------------------------------------------
\* The trait QSqrt and its implementations
\* ------------------------------------------------------------------------

\* what a call leaves: Ok(val) or Err(Overflow) from fast_inverse_sqrt, the
\* value val from fast_inverse_sqrt_unchecked, a panic (why it panicked), or
\* no call at all where the type has no impl of QSqrt
NoBits == [s |-> 0, w |-> 0]

Ok(y) == [tag |-> "Ok", val |-> y, why |-> "-"]

ErrOverflow == [tag |-> "Err", val |-> NoBits, why |-> "Overflow"]

Value(y) == [tag |-> "Value", val |-> y, why |-> "-"]

Panic(why) == [tag |-> "Panic", val |-> NoBits, why |-> why]

NoImpl == [tag |-> "NoImpl", val |-> NoBits, why |-> "-"]

\* the locals of the f32 implementation when it ends: i before and after
\* line 39 (after it, the bits of the zeroth approximation), and x2
NoLocals == [ran |-> FALSE, i |-> NoBits, i2 |-> NoBits, x2 |-> NoBits]

\* i >> 1 on a u32: a logical shift, as a number below 2^31
Shr1(i) == i.s * 2^30 + i.w \div 2

\* (variant) the operands of the subtraction exchanged
WrappingSubSwapped(a, b) ==
    IF b >= a THEN [s |-> 0, w |-> b - a]
    ELSE [s |-> 1, w |-> ((b - a) + 2^30) + 2^30]

\* a - b on u32 without the overflow check, for numbers a, b below 2^31:
\* the difference modulo 2^32
WrappingSub(a, b) ==
    IF a >= b THEN [s |-> 0, w |-> a - b]
    ELSE [s |-> 1, w |-> ((a - b) + 2^30) + 2^30]

\* (variant) the Newton step left out: the zeroth approximation is returned
NewtonSkipped(x2, y) == y

\* (variant) a second Newton step
NewtonTwice(x2, y) ==
    LET y1 == F32Mul(y, F32Sub(THREE_HALFS, F32Mul(F32Mul(x2, y), y)))
    IN  F32Mul(y1, F32Sub(THREE_HALFS, F32Mul(F32Mul(x2, y1), y1)))

\* y * (THREE_HALFS - (x2 * y * y))
Newton(x2, y) == F32Mul(y, F32Sub(THREE_HALFS, F32Mul(F32Mul(x2, y), y)))

\* impl QSqrt for f32: fast_inverse_sqrt.  The subtraction of line 39
\* panics on overflow in a build with overflow checks and wraps otherwise.
F32FastInverseSqrt(self, checks) ==
    LET x2 == F32Mul(self, HALF)
        i  == self
    IN  IF checks /\ Shr1(i) > WTF
        THEN [res |-> Panic("attempt to subtract with overflow"),
              loc |-> [ran |-> TRUE, i |-> i, i2 |-> NoBits, x2 |-> x2]]
        ELSE LET i2 == WrappingSub(WTF, Shr1(i))
                 y  == i2
             IN  [res |-> Ok(Newton(x2, y)),
                  loc |-> [ran |-> TRUE, i |-> i, i2 |-> i2, x2 |-> x2]]

\* impl QSqrt for f64: fast_inverse_sqrt
F64FastInverseSqrt(self, checks) ==
    IF F64Ge(self, F32ToF64(F32_MIN)) /\ F64Le(self, F32ToF64(F32_MAX))
    THEN F32FastInverseSqrt(F64ToF32(self), checks)
    ELSE [res |-> ErrOverflow, loc |-> NoLocals]

\* (variant) the integer's bits reinterpreted as an f32 instead of `as f32`
IntFastInverseSqrtTransmute(self, checks) ==
    F32FastInverseSqrt(
        IF self >= 0 THEN [s |-> 0, w |-> self]
        ELSE [s |-> 1, w |-> (self + 2^30) + 2^30],
        checks)

\* impl_types!: fast_inverse_sqrt of an integer type
IntFastInverseSqrt(self, checks) ==
    LET value == IntToF32(self)
    IN  F32FastInverseSqrt(value, checks)

\* the types impl_types! is applied to
IntImpls == {"u32", "u16", "u8", "i32", "i16", "i8", "usize", "isize"}

\* the types that implement QSqrt
Impls == {"f32", "f64"} \cup IntImpls

\* ty::fast_inverse_sqrt(&x)
FastInverseSqrt(ty, x, checks) ==
    IF ty = "f32" THEN F32FastInverseSqrt(x, checks)
    ELSE IF ty = "f64" THEN F64FastInverseSqrt(x, checks)
    ELSE IF ty \in IntImpls THEN IntFastInverseSqrt(x, checks)
    ELSE [res |-> NoImpl, loc |-> NoLocals]

\* (variant) unwrap_or_default in place of unwrap
UnwrapOrDefault(r) ==
    IF r.tag = "Ok" THEN Value(r.val)
    ELSE IF r.tag = "Err" THEN Value(Zero(0))
    ELSE r

\* Result::unwrap on what fast_inverse_sqrt left
Unwrap(r) ==
    IF r.tag = "Ok" THEN Value(r.val)
    ELSE IF r.tag = "Err" THEN Panic("unwrap on an Err value")
    ELSE r

\* QSqrt::fast_inverse_sqrt_unchecked, the provided method
FastInverseSqrtUnchecked(ty, x, checks) ==
    LET c == FastInverseSqrt(ty, x, checks)
    IN  [res |-> Unwrap(c.res), loc |-> c.loc]

\* ------------------------------------------------------------------------
\* Bounds of the model and the inputs drawn
\* ------------------------------------------------------------------------

\* the f32 inputs take 2^MantBits evenly spaced fraction fields
MantBits == 3

\* the integer inputs take every integer of magnitude up to MaxInt
MaxInt == 8

\* the f64 inputs take the exponents within ExpRadius of each landmark
ExpRadius == 3

\* fraction fields: the evenly spaced ones, the ends, the fractions of 100
\* and of 1e6, and the two around the first negative value whose subtraction
\* overflows (bits 0xBE6EB3BE and 0xBE6EB3C0)
F32Fracs ==
    {k * 2^(23 - MantBits) : k \in 0..(2^MantBits - 1)}
        \cup {1, 2^23 - 1, 4718592, 7611392, 7255998, 7256000}

\* every sign and exponent field: zeros, subnormals, normals, infinities, NaNs
F32Inputs == {[s |-> s, w |-> e * 2^23 + f] : s \in 0..1, e \in 0..255, f \in F32Fracs}

\* exponent fields of f64: 0 and 2047, and those around the least f32
\* subnormal (2^-149), the least f32 normal (2^-126), 1.0 and f32::MAX
F64Exps ==
    {0, 2047} \cup
    {c + d : c \in {1023 - 149, 1023 - 126, 1023, 1023 + 127},
             d \in (-ExpRadius)..ExpRadius}

F64Inputs ==
    [s : 0..1, e : F64Exps, mh : {0, 1, 2^22, 2^23 - 1},
     ml : {0, 1, 2^28, 2^28 + 1, 2^29 - 1}]

IntSamples ==
    ((-MaxInt)..MaxInt) \cup
    {-128, 127, 255, -32768, 32767, 65535, 100, 1000000,
     2^24 + 1, 2^24 + 3, -(2^24 + 1), 2147483647, -2147483647}

\* Rust's primitive numeric types
NumericTypes ==
    {"f32", "f64", "i8", "i16", "i32", "i64", "i128", "isize",
     "u8", "u16", "u32", "u64", "u128", "usize"}

\* the sampled values of an integer type (those of magnitude below 2^31)
IntInputs(ty) ==
    {n \in IntSamples :
        /\ ty \in {"u8", "u16", "u32", "u64", "u128", "usize"} => n >= 0
        /\ ty = "u8" => n <= 255
        /\ ty = "u16" => n <= 65535
        /\ ty = "i8" => (-128 <= n /\ n <= 127)
        /\ ty = "i16" => (-32768 <= n /\ n <= 32767)}

Inputs(ty) ==
    IF ty = "f32" THEN F32Inputs
    ELSE IF ty = "f64" THEN F64Inputs
    ELSE IntInputs(ty)

\* ------------------------------------------------------------------------
\* The state machine: a caller makes one call at a time
\* ------------------------------------------------------------------------

VARIABLES
    overflow_checks,  \* the build: are overflow checks compiled in
    pc,               \* "idle" | "done"
    op,               \* "fast_inverse_sqrt" | "fast_inverse_sqrt_unchecked"
    ty,               \* the type of the receiver
    arg,              \* the receiver
    result,           \* what the call left
    locals            \* the locals of the f32 implementation, if it ran

vars == <<overflow_checks, pc, op, ty, arg, result, locals>>

Init ==
    /\ overflow_checks \in BOOLEAN
    /\ pc = "idle"
    /\ op = "-"
    /\ ty = "-"
    /\ arg = 0
    /\ result = NoImpl
    /\ locals = NoLocals

Finish(o, t, x, r) ==
    /\ pc' = "done"
    /\ op' = o
    /\ ty' = t
    /\ arg' = x
    /\ result' = r.res
    /\ locals' = r.loc
    /\ UNCHANGED overflow_checks

\* y.fast_inverse_sqrt() for an f32 y
CallF32 ==
    /\ pc = "idle"
    /\ \E y \in F32Inputs :
          Finish("fast_inverse_sqrt", "f32", y,
                 FastInverseSqrt("f32", y, overflow_checks))

\* v.fast_inverse_sqrt() for an f64 v
CallF64 ==
    /\ pc = "idle"
    /\ \E v \in F64Inputs :
          Finish("fast_inverse_sqrt", "f64", v,
                 FastInverseSqrt("f64", v, overflow_checks))

\* n.fast_inverse_sqrt() for an integer n of a type of impl_types!
CallInt ==
    /\ pc = "idle"
    /\ \E t \in IntImpls : \E n \in IntInputs(t) :
          Finish("fast_inverse_sqrt", t, n,
                 FastInverseSqrt(t, n, overflow_checks))

\* x.fast_inverse_sqrt_unchecked() for x of a type that implements QSqrt
CallUnchecked ==
    /\ pc = "idle"
    /\ \E t \in Impls : \E x \in Inputs(t) :
          Finish("fast_inverse_sqrt_unchecked", t, x,
                 FastInverseSqrtUnchecked(t, x, overflow_checks))

\* either method on a numeric type that has no impl of QSqrt: no call is made
CallNoImpl ==
    /\ pc = "idle"
    /\ \E t \in NumericTypes \ Impls : \E n \in IntInputs(t) :
       \E o \in {"fast_inverse_sqrt", "fast_inverse_sqrt_unchecked"} :
          Finish(o, t, n,
                 IF o = "fast_inverse_sqrt"
                 THEN FastInverseSqrt(t, n, overflow_checks)
                 ELSE FastInverseSqrtUnchecked(t, n, overflow_checks))

\* the caller takes the result and is ready for the next call
Return ==
    /\ pc = "done"
    /\ pc' = "idle"
    /\ op' = "-"
    /\ ty' = "-"
    /\ arg' = 0
    /\ result' = NoImpl
    /\ locals' = NoLocals
    /\ UNCHANGED overflow_checks

Next == CallF32 \/ CallF64 \/ CallInt \/ CallUnchecked \/ CallNoImpl \/ Return

Spec == Init /\ [][Next]_vars

TypeOK ==
    /\ overflow_checks \in BOOLEAN
    /\ pc \in {"idle", "done"}
    /\ result.tag \in {"Ok", "Err", "Value", "Panic", "NoImpl"}
    /\ pc = "done" => ty \in NumericTypes

\* ------------------------------------------------------------------------
\* Vocabulary of the properties
\* ------------------------------------------------------------------------

Checked == pc = "done" /\ op = "fast_inverse_sqrt"

Unchecked == pc = "done" /\ op = "fast_inverse_sqrt_unchecked"

\* f32::MIN <= v <= f32::MAX for an f64 v, on the fields of v: v is no NaN
\* and its magnitude is at most (2 - 2^-23) * 2^127
InF32Range(v) ==
    \/ v.e < 1023 + 127
    \/ v.e = 1023 + 127 /\ v.mh < 2^23 - 1
    \/ v.e = 1023 + 127 /\ v.mh = 2^23 - 1 /\ v.ml = 0

\* the bits of the f32 values 1.0, 4.0 and -1.0, and the f64 values 4.0,
\* -1.0, f32::MAX and 2 * f32::MAX
OneF32 == [s |-> 0, w |-> 127 * 2^23]

FourF32 == [s |-> 0, w |-> 129 * 2^23]

MinusOneF32 == [s |-> 1, w |-> 127 * 2^23]

FourF64 == [s |-> 0, e |-> 1025, mh |-> 0, ml |-> 0]

MinusOneF64 == [s |-> 1, e |-> 1023, mh |-> 0, ml |-> 0]

MaxF64 == [s |-> 0, e |-> 1023 + 127, mh |-> 2^23 - 1, ml |-> 0]

TwiceMaxF64 == [s |-> 0, e |-> 1023 + 128, mh |-> 2^23 - 1, ml |-> 0]

\* the receiver is its type's representation of the integer n (1 or 4)
ArgIs(n) ==
    IF ty = "f32" THEN arg = (IF n = 4 THEN FourF32 ELSE OneF32)
    ELSE IF ty = "f64" THEN arg = (IF n = 4 THEN FourF64 ELSE [FourF64 EXCEPT !.e = 1023])
    ELSE arg = n

\* the receiver is a positive finite value of its type
ArgPositiveFinite ==
    IF ty = "f32" THEN arg.s = 0 /\ 0 < arg.w /\ arg.w < InfBits
    ELSE IF ty = "f64" THEN arg.s = 0 /\ arg.e < 2047 /\ ~F64IsZero(arg)
    ELSE arg > 0

\* the f32 a is positive and normal
PositiveNormal(a) == a.s = 0 /\ 1 <= ExpField(a) /\ ExpField(a) <= 254

\* the f32 a is positive, finite and not zero
PositiveFinite(a) == a.s = 0 /\ 0 < a.w /\ a.w < InfBits

\* The relative error of r against 1/sqrt(x) is below 2% exactly when
\* 0.9604 < r*r*x < 1.0404.  With the significands normalised to 24 bits,
\* r = mr * 2^er and x = mx * 2^ex, and a, b their leading 10 bits,
\*     a*a*b * 2^(42+2er+ex) <= r*r*x < (a+1)*(a+1)*(b+1) * 2^(42+2er+ex),
\* and both bounds are below 2^31.
NormSig(a) == Sig(a) * 2^(23 - Msb(Sig(a)))

NormExp(a) == Exp(a) - (23 - Msb(Sig(a)))

Lead10(a) == NormSig(a) \div 2^14

SqLow(x, r) == Lead10(r) * Lead10(r) * Lead10(x)

SqHigh(x, r) == (Lead10(r) + 1) * (Lead10(r) + 1) * (Lead10(x) + 1)

\* r*r*x lies in [SqLow * 2^-n, SqHigh * 2^-n)
SqShift(x, r) == -(42 + 2 * NormExp(r) + NormExp(x))

\* the integer part of c * 2^n / 2500, for 27 <= n <= 30 and c below 2700
ScaleFloor(c, n) == c * (2^n \div 2500) + (c * (2^n % 2500)) \div 2500

\* established: the relative error of r against 1/sqrt(x) is below 2%
RelErrBelow2Pct(x, r) ==
    /\ PositiveFinite(r)
    /\ SqShift(x, r) \in 27..30
    /\ SqLow(x, r) > ScaleFloor(2401, SqShift(x, r))
    /\ SqHigh(x, r) <= ScaleFloor(2601, SqShift(x, r))

\* established: the relative error of r against 1/sqrt(x) is 2% or more
RelErrAtLeast2Pct(x, r) ==
    \/ ~PositiveFinite(r)
    \/ SqShift(x, r) < 27
    \/ SqShift(x, r) > 30
    \/ SqHigh(x, r) <= ScaleFloor(2401, SqShift(x, r))
    \/ SqLow(x, r) > ScaleFloor(2601, SqShift(x, r))

\* every sampled positive finite f32 input falls on one side or the other
RelErrDecided ==
    (Checked /\ ty = "f32" /\ PositiveFinite(arg) /\ result.tag = "Ok")
        => (RelErrBelow2Pct(arg, result.val) \/ RelErrAtLeast2Pct(arg, result.val))

\* ------------------------------------------------------------------------
\* Properties
\* ------------------------------------------------------------------------

\* C1: for every f64 input, the checked operation returns Err(Overflow)
\* exactly when the input is not within f32::MIN <= v <= f32::MAX, and
\* otherwise succeeds.
C1_F64OverflowIffOutOfRange ==
    (Checked /\ ty = "f64") =>
        /\ (result = ErrOverflow) <=> ~InF32Range(arg)
        /\ InF32Range(arg) => result.tag = "Ok"

\* The part of C1 that every build satisfies: Err(Overflow) exactly outside
\* the range, both bounds inclusive, and no other error value.
F64OverflowExactlyOutOfRange ==
    (Checked /\ ty = "f64") =>
        /\ (result = ErrOverflow) <=> ~InF32Range(arg)
        /\ arg = MaxF64 => result.tag = "Ok"
        /\ arg = TwiceMaxF64 => result = ErrOverflow

\* C2: Overflow on an f64 outside the f32 range is the only way the checked
\* operation does not succeed; on every f32 and every integer it yields Ok.
C2_OnlyF64OverflowFails ==
    (Checked /\ ty \in Impls /\ result.tag # "Ok") =>
        (result = ErrOverflow /\ ty = "f64" /\ ~InF32Range(arg))

\* C3: fast_inverse_sqrt_unchecked returns exactly the value of the checked
\* operation when that succeeds, and when that yields Err(Overflow) it panics:
\* it returns no value and hands on no error.
C3_UncheckedUnwrapsChecked ==
    Unchecked =>
        LET c == FastInverseSqrt(ty, arg, overflow_checks).res
        IN  /\ c.tag = "Ok" => result = [tag |-> "Value", val |-> c.val, why |-> "-"]
            /\ c.tag = "Err" => result.tag = "Panic"
            /\ (ty = "f64" /\ ~InF32Range(arg)) => result.tag = "Panic"
            /\ result.tag # "Err"

C3_Witness ==
    /\ Unchecked
    /\ ty = "f64"
    /\ arg = TwiceMaxF64
    /\ result.tag = "Panic"
    /\ result.why = "unwrap on an Err value"

\* the f32 literals 0.49 and 0.51 of the crate's tests (0x3EFAE148, 0x3F028F5C)
Lit049 == [s |-> 0, w |-> 1056629064]

Lit051 == [s |-> 0, w |-> 1057132380]

C5_RelErrBelow2PctAllPositive ==
    (Checked /\ ty = "f32" /\ PositiveFinite(arg)) =>
        /\ result.tag = "Ok"
        /\ ~RelErrAtLeast2Pct(arg, result.val)

\* an f32 is above 0.95 exactly when it is above 0x3F733333, and below 1.05
\* exactly when it is below 0x3F866667
Above095 == [s |-> 0, w |-> 1064514355]

Below105 == [s |-> 0, w |-> 1065772647]

\* the bits of 0.5, 1, 2, 4, 10, 100 and 1e6
Sweep ==
    {[s |-> 0, w |-> 126 * 2^23], [s |-> 0, w |-> 127 * 2^23],
     [s |-> 0, w |-> 128 * 2^23], [s |-> 0, w |-> 129 * 2^23],
     [s |-> 0, w |-> 130 * 2^23 + 2097152], [s |-> 0, w |-> 133 * 2^23 + 4718592],
     [s |-> 0, w |-> 146 * 2^23 + 7611392]}

\* every value of the sweep is a positive normal f32 and is among the inputs
SweepSampled == \A x \in Sweep : PositiveNormal(x) /\ x \in F32Inputs

\* C5 amended: for every positive normal f32 input (0.5, 1, 2, 4, 10, 100
\* and 1e6 among them) the relative error of the result against 1/sqrt(x) is
\* below 2%, and for 1.0 the result is strictly between 0.95 and 1.05.
C5_RelErrBelow2PctNormal ==
    /\ SweepSampled
    /\ (Checked /\ ty = "f32" /\ PositiveNormal(arg)) =>
          /\ result.tag = "Ok"
          /\ RelErrBelow2Pct(arg, result.val)
          /\ arg = OneF32 =>
                (F32Lt(Above095, result.val) /\ F32Lt(result.val, Below105))

\* 1e6 (0x49742400) gives 0x3A82D98B = 0.00099830457
C5_Witness ==
    /\ Checked
    /\ ty = "f32"
    /\ arg = [s |-> 0, w |-> 146 * 2^23 + 7611392]
    /\ result = [tag |-> "Ok", val |-> [s |-> 0, w |-> 981653899], why |-> "-"]
    /\ RelErrBelow2Pct(arg, result.val)

\* the scalar types the specification lists
ListedTypes ==
    {"f32", "f64", "i8", "i16", "i32", "i64", "u8", "u16", "u32", "u64",
     "isize", "usize"}

\* C6: both operations are available on every listed scalar type.
C6_ListedTypesImplemented ==
    (pc = "done" /\ ty \in ListedTypes) => result.tag # "NoImpl"

\* C7: the output for a positive finite input is a finite f32, and the bits
\* 0x5f3759df - (i >> 1) of a positive finite f32 have sign bit 0 and an
\* exponent field that is not all ones.
C7_OutputFinite ==
    (Checked /\ ArgPositiveFinite /\ result.tag = "Ok") =>
        /\ IsFinite(result.val)
        /\ PositiveFinite(locals.i) =>
              (locals.i2.s = 0 /\ locals.i2.w \div 2^23 # 255)

C7_Witness ==
    /\ Checked
    /\ ty = "f32"
    /\ arg = [s |-> 0, w |-> 254 * 2^23 + (2^23 - 1)]
    /\ result.tag = "Ok"
    /\ IsFinite(result.val)
    /\ locals.i2.s = 0

C9_BitHackThenOneNewtonStep ==
    (pc = "done" /\ locals.ran /\ result.tag \in {"Ok", "Value"}) =>
        LET y  == locals.i
            y0 == locals.i2
            d  == 1597463007 - (y.s * 2^30 + y.w \div 2)
            f15 == [s |-> 0, w |-> 1069547520]
            f05 == [s |-> 0, w |-> 1056964608]
        IN  /\ ty = "f32" => y = arg
            /\ d >= 0 => y0 = [s |-> 0, w |-> d]
            /\ d < 0 => y0 = [s |-> 1, w |-> (d + 2^30) + 2^30]
            /\ result.val =
                  F32Mul(y0, F32Sub(f15, F32Mul(F32Mul(F32Mul(y, f05), y0), y0)))

\* 4.0 (0x40800000): y0 = 0x3EF759DF, returned 0x3EFF910F
C9_Witness ==
    /\ Checked
    /\ ty = "f32"
    /\ arg = FourF32
    /\ locals.i2 = [s |-> 0, w |-> 1056397791]
    /\ result = [tag |-> "Ok", val |-> [s |-> 0, w |-> 1056936207], why |-> "-"]

\* C10: for every bit pattern i that reaches the f32 path, (i >> 1) is at
\* most 0x5f3759df, so the subtraction of line 39 never underflows.
C10_SubtractionNeverUnderflows ==
    (pc = "done" /\ locals.ran) =>
        locals.i.s * 2^30 + locals.i.w \div 2 <= 1597463007

====
